---- MODULE Spec2Model ----
(***************************************************************************)
(* A model of Versions/Streamlit/app.py: the playlist URL validator, the   *)
(* Streamlit script run of main() over its session state, the sequential   *)
(* download loop of YouTubePlaylistDownloader.download_videos, and the     *)
(* format request it builds for a quality tier in video mode.              *)
(*                                                                         *)
(* Strings are sequences of one-character strings, so that the regular     *)
(* expression of is_valid_playlist_url is matched character by character.  *)
(***************************************************************************)
EXTENDS Integers, Sequences, FiniteSets, TLC

\* ------------------------------------------------------------------ bounds

\* Most entries a playlist returned by the extractor holds.
MaxVideos == 3

\* Longest list id the candidate URLs of the validator are built with.
MaxIdLen == 2

\* ----------------------------------------------------------------- strings

s_empty == << >>
s_http == <<"h","t","t","p">>
s_s == <<"s">>
s_colon_slashes == <<":","/","/">>
s_www_dot == <<"w","w","w",".">>
s_youtube_com == <<"y","o","u","t","u","b","e",".","c","o","m">>
s_youtu == <<"y","o","u","t","u">>
s_dot == <<".">>
s_be == <<"b","e">>
s_playlist_list == <<"/","p","l","a","y","l","i","s","t","?","l","i","s","t","=">>
s_watch_prefix == <<"h","t","t","p","s",":","/","/","w","w","w",".","y","o","u","t","u","b","e",".","c","o","m","/","w","a","t","c","h","?","v","=">>

\* The character class [a-zA-Z0-9_-] of the playlist pattern.
IdChars ==
    {"a","b","c","d","e","f","g","h","i","j","k","l","m",
     "n","o","p","q","r","s","t","u","v","w","x","y","z",
     "A","B","C","D","E","F","G","H","I","J","K","L","M",
     "N","O","P","Q","R","S","T","U","V","W","X","Y","Z",
     "0","1","2","3","4","5","6","7","8","9","_","-"}

\* ------------------------------------------------- re.match, piece by piece
\* A set of positions P holds every index at which the next character would
\* be read after the pattern so far has matched a prefix of url.

\* A literal: the positions after lit, from the positions where lit occurs.
Lit(url, P, lit) ==
    { p + Len(lit) : p \in { q \in P : /\ q + Len(lit) - 1 <= Len(url)
                                       /\ SubSeq(url, q, q + Len(lit) - 1) = lit } }

\* lit? : the literal may be absent.
Opt(url, P, lit) == P \cup Lit(url, P, lit)

\* [class]+ : one or more characters of the class.
Plus(url, P, class) ==
    { q \in 2..(Len(url) + 1) :
        \E p \in P : p < q /\ \A k \in p..(q - 1) : url[k] \in class }

\* A slip: (https://)? for (https?://)?, the "?" after the s lost.
SchemeGroupHttpsOnly(url, P) ==
    P \cup Lit(url, Lit(url, Lit(url, P, s_http), s_s), s_colon_slashes)

\* (https?://)?
SchemeGroup(url, P) == P \cup Lit(url, Opt(url, Lit(url, P, s_http), s_s), s_colon_slashes)

\* (www\.)?
WwwGroup(url, P) == Opt(url, P, s_www_dot)

\* (youtube\.com|youtu\.?be)
HostGroup(url, P) ==
    Lit(url, P, s_youtube_com) \cup Lit(url, Opt(url, Lit(url, P, s_youtu), s_dot), s_be)

\* ^(https?://)?(www\.)?(youtube\.com|youtu\.?be)/playlist\?list=([a-zA-Z0-9_-]+)
\* re.match anchors the pattern at the start of url only.
PlaylistPatternEnds(url) ==
    Plus(url, Lit(url, HostGroup(url, WwwGroup(url, SchemeGroup(url, {1}))), s_playlist_list), IdChars)

is_valid_playlist_url(url) == PlaylistPatternEnds(url) # {}


\* ---------------------------------------------------------------- the state

VARIABLES
    playlist_url,        \* the sidebar's text input (a string)
    video_data,          \* st.session_state.video_data
    video_urls,          \* st.session_state.video_urls
    selected_videos,     \* st.session_state.selected_videos (a set of indices)
    select_all_clicked,  \* st.session_state.select_all_clicked
    clear_all_clicked,   \* st.session_state.clear_all_clicked
    validation,          \* what is_valid_playlist_url returned in the last run
    st_error,            \* the last st.error message of the last run ("" when none)
    widgets,             \* the buttons the last completed run rendered
    pc,                  \* idle | rerun | loop | extract | done
    audio_only,          \* the sidebar's "Download as" radio is at "Audio Only"
    quality,             \* the sidebar's "Video Quality" box ("best" in audio mode)
    order,               \* sorted(selected_indices), the sequence the loop walks
    i,                   \* the loop's enumerate counter (0-based)
    total_count,         \* download_videos' total_count
    success_count,       \* download_videos' success_count
    console_content,     \* download_videos' console_content (the lines appended)
    returned,            \* download_videos' return value ("none" before it returns)
    ext_log,             \* what the extractor did on each call of this batch
    op_history,          \* the Select All / Clear All handlers run by the latest
                         \* user events, in order (a history variable)
    available_heights,   \* the heights of the formats the site offers for a video
    ydl_format,          \* ydl_opts['format'], the request handed to the extractor
    selected_format      \* what the extractor's format selection made of it

vars == <<playlist_url, video_data, video_urls, selected_videos, select_all_clicked,
          clear_all_clicked, validation, st_error, widgets, pc, order, i,
          total_count, success_count, console_content, returned, ext_log,
          op_history, audio_only, quality, available_heights, ydl_format,
          selected_format>>

\* What st.session_state holds.
session_vars == <<video_data, video_urls, selected_videos, select_all_clicked,
                  clear_all_clicked>>


\* ------------------------------------------------------ the extractor service

DigitChars == <<"1","2","3","4","5","6","7","8","9">>

\* The entry the extractor reports at position k of the playlist behind url; the
\* id is named after the list id's last character and the position.
PlaylistVideo(url, k) ==
    [present |-> TRUE,
     id      |-> <<url[Len(url)], DigitChars[k]>>,
     title   |-> <<"T", url[Len(url)], DigitChars[k]>>]

\* An entry the extractor reports as None (a video it could not resolve).
NoVideo == [present |-> FALSE, id |-> s_empty, title |-> s_empty]

\* The positions of a playlist of n entries that may be reported as None: no
\* entry, the second entry, or every entry.
UnavailablePositions(n) == {{}, {2} \cap (1..n), 1..n}

\* The entry lists ydl.extract_info(playlist_url, download=False) may return.
PlaylistEntries(url) ==
    UNION { { [k \in 1..n |-> IF k \in H THEN NoVideo ELSE PlaylistVideo(url, k)] :
              H \in UnavailablePositions(n) } : n \in 0..MaxVideos }

\* get_playlist_info: None when extract_info raises, the playlist otherwise.
ExtractorDown == [ok |-> FALSE, entries |-> << >>]

get_playlist_info(url) ==
    {ExtractorDown} \cup { [ok |-> TRUE, entries |-> e] : e \in PlaylistEntries(url) }

\* --------------------------------------------------------- pure parts of main

\* range(n) as a set
range(n) == 0..(n - 1)

\* The loop of main that builds video_data: entries that are None are skipped,
\* 'index' is the position in the extractor's list.
RECURSIVE build_video_data(_, _)
build_video_data(videos, k) ==
    IF k = 0 THEN << >>
    ELSE LET prev == build_video_data(videos, k - 1)
             video == videos[k]
         IN  IF video.present
             THEN Append(prev, [index |-> k - 1,
                                id    |-> video.id,
                                title |-> video.title,
                                url   |-> s_watch_prefix \o video.id])
             ELSE prev

\* video_urls is appended to in step with video_data.
build_video_urls(vd) == [j \in 1..Len(vd) |-> vd[j].url]

\* ------------------------------------------------ pure parts of download_videos

\* A slip: the set walked largest index first.
RECURSIVE sorted_descending(_)
sorted_descending(S) ==
    IF S = {} THEN << >>
    ELSE LET m == CHOOSE x \in S : \A y \in S : x >= y
         IN  <<m>> \o sorted_descending(S \ {m})

\* sorted(selected_indices): the indices in ascending order.
RECURSIVE sorted(_)
sorted(S) ==
    IF S = {} THEN << >>
    ELSE LET m == CHOOSE x \in S : \A y \in S : x <= y
         IN  <<m>> \o sorted(S \ {m})

\* A console line: its kind, the 1-based position and total it prints, the title.
Line(kind, pos, total, title) ==
    [kind |-> kind, pos |-> pos, total |-> total, title |-> title]

\* The lines appended before the loop.
ConsoleHeader(total) ==
    << Line("Starting download process", 0, total, s_empty),
       Line("Downloading to", 0, total, s_empty),
       Line("Using reliable download settings", 0, total, s_empty),
       Line("Format", 0, total, s_empty),
       Line("rule", 0, total, s_empty) >>

\* The check after extract_info returned: the file prepare_filename names exists.
item_succeeded(result, exists) == result = "returned" /\ exists

\* The final summary's three-way test on success_count and total_count.
classify(succ, total) ==
    IF succ = total THEN "ALL DOWNLOADS COMPLETED SUCCESSFULLY"
    ELSE IF succ > 0 THEN "PARTIAL SUCCESS"
    ELSE "ALL DOWNLOADS FAILED"

\* The lines appended after the loop.
ConsoleSummary(succ, total) ==
    << Line("rule", 0, total, s_empty) >>
    \o (IF classify(succ, total) = "PARTIAL SUCCESS"
        THEN << Line("PARTIAL SUCCESS", succ, total, s_empty),
                Line("downloads failed", total - succ, total, s_empty) >>
        ELSE << Line(classify(succ, total), succ, total, s_empty) >>)
    \o << Line("Files saved to", 0, total, s_empty) >>


\* --------------------------------------------- the format request (video mode)

s_best == <<"b","e","s","t">>
s_slash == <<"/">>
s_height_le == <<"[","h","e","i","g","h","t","<","=">>
s_bracket == <<"]">>
s_1080 == <<"1","0","8","0">>
s_720 == <<"7","2","0">>
s_480 == <<"4","8","0">>
s_360 == <<"3","6","0">>

s_bestaudio == <<"b","e","s","t","a","u","d","i","o">>
s_ext_m4a == <<"[","e","x","t","=","m","4","a","]">>

\* The text 'best[height<=N]' for the digits N.
best_height_le(digits) == s_best \o s_height_le \o digits \o s_bracket

\* The options of the "Video Quality" selectbox.
QualityOptions == {"best", "1080p", "720p", "480p", "360p"}

\* quality_map of download_videos.
quality_map ==
    [q \in QualityOptions |->
        IF q = "best"
        THEN best_height_le(s_1080) \o s_slash \o best_height_le(s_720) \o s_slash \o s_best
        ELSE IF q = "1080p" THEN best_height_le(s_1080)
        ELSE IF q = "720p" THEN best_height_le(s_720)
        ELSE IF q = "480p" THEN best_height_le(s_480)
        ELSE best_height_le(s_360)]

\* quality_map.get(quality, 'best[height<=720]/best'): the value ydl_opts['format']
\* has in video mode (it replaces the value the dict was built with).
video_format(q) ==
    IF q \in DOMAIN quality_map THEN quality_map[q]
    ELSE best_height_le(s_720) \o s_slash \o s_best

\* ydl_opts['format'] when the loop starts: the value the dict is built with is
\* replaced in either mode; audio mode asks for 'bestaudio/best' when FFmpeg is
\* there to convert it and for 'bestaudio[ext=m4a]/bestaudio/best' when not.
format_request(ao, ffmpeg_available, q) ==
    IF ao
    THEN IF ffmpeg_available
         THEN s_bestaudio \o s_slash \o s_best
         ELSE s_bestaudio \o s_ext_m4a \o s_slash \o s_bestaudio \o s_slash \o s_best
    ELSE video_format(q)

\* The extractor's reading of a format request: alternatives separated by "/",
\* tried from left to right; 'best' takes the best format there is with
\* picture and sound, 'best[height<=N]' the best of those whose height is at
\* most N, 'bestaudio...' the best sound-only format.
RECURSIVE SplitAlternatives(_)
SplitAlternatives(fmt) ==
    LET at == { p \in 1..Len(fmt) : fmt[p] = "/" }
    IN  IF at = {} THEN <<fmt>>
        ELSE LET p == CHOOSE x \in at : \A y \in at : x <= y
             IN  <<SubSeq(fmt, 1, p - 1)>> \o SplitAlternatives(SubSeq(fmt, p + 1, Len(fmt)))

DigitValue ==
    [c \in {"0","1","2","3","4","5","6","7","8","9"} |->
        CASE c = "0" -> 0 [] c = "1" -> 1 [] c = "2" -> 2 [] c = "3" -> 3 [] c = "4" -> 4
          [] c = "5" -> 5 [] c = "6" -> 6 [] c = "7" -> 7 [] c = "8" -> 8 [] c = "9" -> 9]

RECURSIVE ParseNumber(_)
ParseNumber(digits) ==
    IF digits = << >> THEN 0
    ELSE 10 * ParseNumber(SubSeq(digits, 1, Len(digits) - 1)) + DigitValue[digits[Len(digits)]]

\* One alternative: whether it asks for a sound-only format, whether it carries
\* a height filter, and the filter's ceiling.
ParseAlternative(alt) ==
    IF Len(alt) >= Len(s_bestaudio) /\ SubSeq(alt, 1, Len(s_bestaudio)) = s_bestaudio
    THEN [sound_only |-> TRUE, filtered |-> FALSE, ceiling |-> 0]
    ELSE IF /\ Len(alt) > Len(s_best) + Len(s_height_le) + Len(s_bracket)
            /\ SubSeq(alt, 1, Len(s_best) + Len(s_height_le)) = s_best \o s_height_le
            /\ alt[Len(alt)] = "]"
    THEN [sound_only |-> FALSE, filtered |-> TRUE,
          ceiling  |-> ParseNumber(SubSeq(alt, Len(s_best) + Len(s_height_le) + 1, Len(alt) - 1))]
    ELSE [sound_only |-> FALSE, filtered |-> FALSE, ceiling |-> 0]

\* The heights an alternative admits of a video offered in formats with picture
\* and sound only, one for each of heights.
Admitted(alt, heights) ==
    IF ParseAlternative(alt).sound_only THEN {}
    ELSE IF ParseAlternative(alt).filtered
    THEN { h \in heights : h <= ParseAlternative(alt).ceiling }
    ELSE heights

Highest(heights) == CHOOSE h \in heights : \A g \in heights : g <= h

NotRun == [status |-> "not run", height |-> 0]

\* The format taken for a video offered at heights: the best of the first
\* alternative that admits any; "Requested format is not available" when none does.
select_format(fmt, heights) ==
    LET alts == SplitAlternatives(fmt)
        hits == { k \in 1..Len(alts) : Admitted(alts[k], heights) # {} }
    IN  IF hits = {}
        THEN [status |-> "not available", height |-> 0]
        ELSE [status |-> "selected",
              height |-> Highest(Admitted(alts[CHOOSE k \in hits : \A m \in hits : k <= m],
                                          heights))]

\* What the sidebar's radio and selectbox can stand at: a quality in video mode
\* (line 392), "best" in audio mode (line 399).
SidebarChoices ==
    { [audio_only |-> FALSE, quality |-> q] : q \in QualityOptions }
    \cup { [audio_only |-> TRUE, quality |-> "best"] }

\* The sidebar as the first run shows it: "Video" (index=0), "1080p" (index=1).
SidebarDefault ==
    /\ audio_only = FALSE
    /\ quality = "1080p"

\* No video's offer is looked at.
NoOffer ==
    /\ available_heights = {}
    /\ selected_format = NotRun

\* ------------------------------------------------------------------- Init

\* download_videos' locals when no batch has run in the current script run.
NoBatch ==
    /\ order' = << >>
    /\ i' = 0
    /\ total_count' = 0
    /\ success_count' = 0
    /\ console_content' = << >>
    /\ returned' = "none"
    /\ ext_log' = << >>
    /\ ydl_format' = s_empty
    /\ selected_format' = NotRun

\* The session state main() initializes on the first run, with an empty URL box.
Init ==
    /\ playlist_url = s_empty
    /\ video_data = << >>
    /\ video_urls = << >>
    /\ selected_videos = {}
    /\ select_all_clicked = FALSE
    /\ clear_all_clicked = FALSE
    /\ validation = "not called"
    /\ st_error = ""
    /\ widgets = {}
    /\ pc = "idle"
    /\ order = << >>
    /\ i = 0
    /\ total_count = 0
    /\ success_count = 0
    /\ console_content = << >>
    /\ returned = "none"
    /\ ext_log = << >>
    /\ op_history = ""
    /\ ydl_format = s_empty
    /\ SidebarDefault
    /\ NoOffer

\* ------------------------------------------------- download_videos, its entry

\* download_videos(video_urls, selected_indices, audio_only, quality) up to the
\* loop, on a downloader whose FFmpeg probe gave ffmpeg_available: the early
\* return on an empty URL list, the format request, the early return on an empty
\* selection, then the counters and the console header.
download_videos_begin(vu, sel, ao, q, ffmpeg_available) ==
    IF vu = << >>
    THEN /\ st_error' = "No videos selected for download"
         /\ pc' = "done"
         /\ ydl_format' = s_empty
         /\ selected_format' = NotRun
         /\ order' = << >> /\ i' = 0 /\ total_count' = 0 /\ success_count' = 0
         /\ console_content' = << >> /\ ext_log' = << >>
         /\ returned' = "False"
    ELSE IF Cardinality(sel) = 0
    THEN /\ st_error' = "No videos selected"
         /\ pc' = "done"
         /\ ydl_format' = format_request(ao, ffmpeg_available, q)
         /\ selected_format' = NotRun
         /\ order' = << >> /\ i' = 0 /\ total_count' = 0 /\ success_count' = 0
         /\ console_content' = << >> /\ ext_log' = << >>
         /\ returned' = "False"
    ELSE /\ st_error' = ""
         /\ pc' = "loop"
         /\ ydl_format' = format_request(ao, ffmpeg_available, q)
         /\ selected_format' = NotRun
         /\ order' = sorted(sel)
         /\ i' = 0
         /\ total_count' = Cardinality(sel)
         /\ success_count' = 0
         /\ console_content' = ConsoleHeader(Cardinality(sel))
         /\ ext_log' = << >>
         /\ returned' = "none"

\* ------------------------------------------------------ one script run of main

\* A slip: the indices counted from 1.
select_all_one_based(vd) == 1..Len(vd)

\* What "Select All" stores: set(range(len(video_data))).
select_all_selection(vd) == range(Len(vd))

\* What "Clear All" stores: set().
clear_all_selection(vd) == {}

\* What storing a fetched playlist does to the Selection: nothing (main assigns
\* video_data and video_urls only).
selection_after_store(sel) == sel

\* The history of selection operations after the handler of op has run.
history_after(op) ==
    IF op = "selectAll"
    THEN (IF op_history \in {"clearAll", "selectAll;clearAll"}
          THEN "clearAll;selectAll" ELSE "selectAll")
    ELSE (IF op_history \in {"selectAll", "clearAll;selectAll"}
          THEN "selectAll;clearAll" ELSE "clearAll")

ControlWidgets == {"select_all_btn", "clear_all_btn", "video_selection_form"}

\* What can start a run of main(): an edited input widget, st.rerun(), a button
\* of the main area, or a button of the sidebar together with what the
\* operating system did for it.
MainEvents == {"input", "rerun", "select_all", "clear_all", "submit_form",
               "start_download"}

\* "User Downloads", "App Folder", and "Choose Custom Folder" with a folder
\* picked in the dialog: the path is set and st.rerun() ends the run.
FolderSetEvents == {"user_downloads", "app_folder", "custom_folder"}

\* "Choose Custom Folder" with the dialog cancelled or raising, and "Open
\* Download Folder" with os.startfile returning or raising: the run goes on.
FolderStayEvents == {"custom_folder_cancelled", "custom_folder_failed",
                     "open_folder", "open_folder_failed"}

\* The st.error message the sidebar leaves in a run started by event (the
\* dialog's message without the exception text that follows its colon).
sidebar_message(event) ==
    IF event = "custom_folder_failed" THEN "Could not open folder dialog"
    ELSE IF event = "open_folder_failed" THEN "Could not open folder"
    ELSE ""

\* The st.error message of a run that stores no playlist ("" for the welcome
\* page of an empty URL box).
no_playlist_message(url, valid, info) ==
    IF url = s_empty THEN ""
    ELSE IF ~valid THEN "Please enter a valid YouTube playlist URL"
    ELSE IF ~info.ok THEN "Could not fetch playlist information"
    ELSE "No videos found in this playlist"

\* A slip: the Download section dedented out of the "if videos:" block, so that
\* a press of Start Download is served from the stored lists after the message.
no_playlist_run_still_downloads(url, valid, info, event) ==
    /\ st_error' = IF no_playlist_message(url, valid, info) # ""
                   THEN no_playlist_message(url, valid, info)
                   ELSE sidebar_message(event)
    /\ UNCHANGED <<selected_videos, select_all_clicked, clear_all_clicked>>
    /\ widgets' = {}
    /\ IF event = "start_download" /\ selected_videos # {} /\ video_urls # << >>
       THEN /\ pc' = "loop"
            /\ ydl_format' = format_request(audio_only', FALSE, quality')
            /\ selected_format' = NotRun
            /\ order' = sorted(selected_videos)
            /\ i' = 0
            /\ total_count' = Cardinality(selected_videos)
            /\ success_count' = 0
            /\ console_content' = ConsoleHeader(Cardinality(selected_videos))
            /\ ext_log' = << >>
            /\ returned' = "none"
       ELSE /\ pc' = "idle"
            /\ NoBatch

\* A run of main() that stores no playlist, whichever widget event started it:
\* the welcome page, or one of the three messages; no selection control and no
\* Download section is reached, the session state is not assigned to. A message
\* of the sidebar is the run's last one when the main area shows none.
no_playlist_run(url, valid, info, event) ==
    /\ st_error' = IF no_playlist_message(url, valid, info) # ""
                   THEN no_playlist_message(url, valid, info)
                   ELSE sidebar_message(event)
    /\ UNCHANGED <<selected_videos, select_all_clicked, clear_all_clicked>>
    /\ widgets' = {}
    /\ pc' = "idle"
    /\ NoBatch

\* A run of main() that a sidebar button ends at st.rerun(): the widgets below
\* the button are not reached, nor is the main area.
sidebar_rerun ==
    /\ pc' = "rerun"
    /\ validation' = "not called"
    /\ st_error' = ""
    /\ widgets' = {}
    /\ op_history' = ""
    /\ NoBatch
    /\ UNCHANGED <<playlist_url, audio_only, quality>>
    /\ UNCHANGED session_vars
    /\ UNCHANGED available_heights

\* main() from the sidebar's input widgets on, in a run no sidebar button ends:
\* url is the text of the URL box, choice what the radio and the quality box
\* stand at, valid the validator's verdict on url.
main_body(url, valid, choice, event, checked, info, ffmpeg_available) ==
    LET stored == /\ url # s_empty
                  /\ valid
                  /\ info.ok
                  /\ info.entries # << >>
        vd == IF stored THEN build_video_data(info.entries, Len(info.entries))
                        ELSE video_data
        vu == IF stored THEN build_video_urls(vd) ELSE video_urls
        sel == IF stored THEN selection_after_store(selected_videos)
                         ELSE selected_videos
    IN  /\ playlist_url' = url
        /\ audio_only' = choice.audio_only
        /\ quality' = choice.quality
        /\ UNCHANGED available_heights
        /\ validation' = IF url = s_empty THEN "not called"
                         ELSE IF valid THEN "True" ELSE "False"
        /\ video_data' = vd
        /\ video_urls' = vu
        /\ op_history' = IF event = "rerun" THEN op_history
                         ELSE IF stored /\ event = "select_all" THEN history_after("selectAll")
                         ELSE IF stored /\ event = "clear_all" THEN history_after("clearAll")
                         ELSE ""
        /\ IF ~stored
           THEN no_playlist_run(url, valid, info, event)
           ELSE IF event = "select_all"
           THEN /\ selected_videos' = select_all_selection(vd)
                /\ select_all_clicked' = TRUE
                /\ clear_all_clicked' = FALSE
                /\ st_error' = ""
                /\ widgets' = {}
                /\ pc' = "rerun"
                /\ NoBatch
           ELSE IF event = "clear_all"
           THEN /\ selected_videos' = clear_all_selection(vd)
                /\ clear_all_clicked' = TRUE
                /\ select_all_clicked' = FALSE
                /\ st_error' = ""
                /\ widgets' = {}
                /\ pc' = "rerun"
                /\ NoBatch
           ELSE IF event = "submit_form"
           THEN /\ selected_videos' = checked
                /\ select_all_clicked' = FALSE
                /\ clear_all_clicked' = FALSE
                /\ st_error' = ""
                /\ widgets' = {}
                /\ pc' = "rerun"
                /\ NoBatch
           ELSE /\ selected_videos' = sel
                /\ select_all_clicked' = FALSE
                /\ clear_all_clicked' = FALSE
                /\ widgets' = ControlWidgets
                              \cup (IF sel # {} THEN {"start_download"} ELSE {})
                /\ IF event = "start_download" /\ sel # {}
                   THEN download_videos_begin(vu, sel, choice.audio_only,
                                              choice.quality, ffmpeg_available)
                   ELSE /\ st_error' = sidebar_message(event)
                        /\ pc' = "idle"
                        /\ NoBatch

\* The playlist URLs typed in the model of the whole application.
s_playlist_a == <<"h","t","t","p","s",":","/","/","w","w","w",".","y","o","u","t","u","b","e",".","c","o","m","/","p","l","a","y","l","i","s","t","?","l","i","s","t","=","P","L","a">>
s_playlist_b == <<"y","o","u","t","u",".","b","e","/","p","l","a","y","l","i","s","t","?","l","i","s","t","=","P","L","b">>
s_plain_video == <<"h","t","t","p","s",":","/","/","w","w","w",".","y","o","u","t","u","b","e",".","c","o","m","/","w","a","t","c","h","?","v","=","a","b","c","1","2","3">>

UrlInputs == {s_empty, s_plain_video, s_playlist_a, s_playlist_b}

\* is_valid_playlist_url on the typed URLs, computed once.
VerdictTable == [url \in UrlInputs |-> is_valid_playlist_url(url)]

\* The validator's verdict on url.
Verdict(url) ==
    IF url \in UrlInputs THEN VerdictTable[url] ELSE is_valid_playlist_url(url)

\* One run of main() with the URL box holding url, the sidebar's radio and
\* quality box standing at choice, the widget event that triggered it, the
\* checkbox states of a submitted form, the extractor's answer info to
\* get_playlist_info, and the result of the FFmpeg probe the downloader makes
\* when it is constructed.
main(url, choice, event, checked, info, ffmpeg_available) ==
    IF event \in FolderSetEvents
    THEN sidebar_rerun
    ELSE main_body(url, Verdict(url), choice, event, checked, info,
                   ffmpeg_available)

\* --------------------------------------------------- the user and the framework

\* The extractor's possible answers in a run with the URL box holding url; main
\* calls get_playlist_info only for a non-empty URL the validator accepts.
AnswersTable ==
    [url \in UrlInputs |->
        IF url # s_empty /\ VerdictTable[url]
        THEN get_playlist_info(url)
        ELSE {ExtractorDown}]

Answers(url) == AnswersTable[url]

\* The video_data a run stores when the extractor answers info, else the old one.
DataAfter(info) ==
    IF info.ok /\ info.entries # << >>
    THEN build_video_data(info.entries, Len(info.entries))
    ELSE video_data

Waiting == pc \in {"idle", "done"}

\* What the sidebar's radio and quality box stand at.
Sidebar == [audio_only |-> audio_only, quality |-> quality]

\* The sidebar choices made in the model of the whole application.
SidebarInputs ==
    { [audio_only |-> FALSE, quality |-> "1080p"],
      [audio_only |-> FALSE, quality |-> "480p"],
      [audio_only |-> TRUE,  quality |-> "best"] }

\* What one click on the radio or one pick in the quality box can make of the
\* sidebar: another quality in video mode, audio mode, or video mode again with
\* the quality box, which audio mode does not show, back at its default.
SidebarChanges ==
    IF audio_only
    THEN { [audio_only |-> FALSE, quality |-> "1080p"] }
    ELSE { c \in SidebarInputs : c # Sidebar }

\* The user edits the URL box.
SubmitUrl ==
    /\ Waiting
    /\ \E url \in UrlInputs \ {playlist_url} :
         \E info \in Answers(url) :
           main(url, Sidebar, "input", {}, info, FALSE)

\* The user changes the "Download as" radio or the "Video Quality" box: the
\* script runs again, no button pressed.
Refresh ==
    /\ Waiting
    /\ \E choice \in SidebarChanges :
         \E info \in Answers(playlist_url) :
           main(playlist_url, choice, "input", {}, info, FALSE)

\* "User Downloads", "App Folder", or "Choose Custom Folder" with a folder picked.
ClickSetFolder ==
    /\ Waiting
    /\ \E event \in FolderSetEvents :
         main(playlist_url, Sidebar, event, {}, ExtractorDown, FALSE)

\* "Choose Custom Folder" without a folder picked, or "Open Download Folder".
ClickFolderButton ==
    /\ Waiting
    /\ \E event \in FolderStayEvents :
         \E info \in Answers(playlist_url) :
           main(playlist_url, Sidebar, event, {}, info, FALSE)

\* st.rerun(): the framework runs the script again.
Rerun ==
    /\ pc = "rerun"
    /\ \E info \in Answers(playlist_url) :
         main(playlist_url, Sidebar, "rerun", {}, info, FALSE)

ClickSelectAll ==
    /\ Waiting
    /\ "select_all_btn" \in widgets
    /\ \E info \in Answers(playlist_url) :
         main(playlist_url, Sidebar, "select_all", {}, info, FALSE)

ClickClearAll ==
    /\ Waiting
    /\ "clear_all_btn" \in widgets
    /\ \E info \in Answers(playlist_url) :
         main(playlist_url, Sidebar, "clear_all", {}, info, FALSE)

\* "Update Selections": the checkboxes rendered in this run, one per video_data entry.
SubmitForm ==
    /\ Waiting
    /\ "video_selection_form" \in widgets
    /\ \E info \in Answers(playlist_url) :
         \E checked \in SUBSET range(Len(DataAfter(info))) :
           main(playlist_url, Sidebar, "submit_form", checked, info, FALSE)

\* The FFmpeg probe is read by download_videos only, in audio mode.
ClickStartDownload ==
    /\ Waiting
    /\ "start_download" \in widgets
    /\ \E info \in Answers(playlist_url) :
         \E ffmpeg_available \in (IF audio_only THEN BOOLEAN ELSE {FALSE}) :
           main(playlist_url, Sidebar, "start_download", {}, info, ffmpeg_available)

\* ------------------------------------------------- download_videos, its loop

batch_frame == <<playlist_url, video_data, video_urls, selected_videos,
                 select_all_clicked, clear_all_clicked, validation, st_error,
                 widgets, order, total_count, returned, op_history,
                 audio_only, quality, available_heights, ydl_format>>

\* A slip: the transfer handed to a worker, the loop not waiting for its result.
StartItemDetached ==
    /\ pc = "loop"
    /\ i < Len(order)
    /\ order[i + 1] < Len(video_urls)
    /\ console_content' = console_content \o
          << Line("Starting", i + 1, total_count, video_data[order[i + 1] + 1].title),
             Line("Connecting to", i + 1, total_count, video_urls[order[i + 1] + 1]) >>
    /\ i' = i + 1
    /\ selected_format' = NotRun
    /\ UNCHANGED <<pc, success_count, ext_log>>
    /\ UNCHANGED batch_frame

\* An iteration whose idx is < len(video_urls): the item is started.
StartItem ==
    /\ pc = "loop"
    /\ i < Len(order)
    /\ order[i + 1] < Len(video_urls)
    /\ console_content' = console_content \o
          << Line("Starting", i + 1, total_count, video_data[order[i + 1] + 1].title),
             Line("Connecting to", i + 1, total_count, video_urls[order[i + 1] + 1]) >>
    /\ pc' = "extract"
    /\ selected_format' = NotRun
    /\ UNCHANGED <<i, success_count, ext_log>>
    /\ UNCHANGED batch_frame

\* An iteration whose idx is not < len(video_urls): the loop body does nothing.
SkipItem ==
    /\ pc = "loop"
    /\ i < Len(order)
    /\ ~(order[i + 1] < Len(video_urls))
    /\ i' = i + 1
    /\ UNCHANGED <<pc, success_count, console_content, ext_log, selected_format>>
    /\ UNCHANGED batch_frame

\* What extract_info(video_url, download=True) can do: raise, return None (an
\* error swallowed under 'ignoreerrors'), or return the info of the video.
ExtractInfoResults == {"raised", "returned None", "returned"}

\* What the file system can do after extract_info returned: os.path.exists
\* says no; or it says yes and os.path.getsize returns the size; or it says yes
\* and the file is gone when os.path.getsize looks, which raises.
FileLookups ==
    { [exists |-> FALSE, getsize |-> "not called"],
      [exists |-> TRUE,  getsize |-> "returned"],
      [exists |-> TRUE,  getsize |-> "raised"] }

\* extract_info returned the video's info, having found a format to download:
\* the file is looked up on disk. The count is raised before the size is read,
\* so that an exception of os.path.getsize reaches the except clause with the
\* item already counted.
ItemReturns ==
    /\ pc = "extract"
    /\ available_heights = {} \/ selected_format.status = "selected"
    /\ \E file \in FileLookups :
         /\ ext_log' = Append(ext_log, [pos |-> i + 1, result |-> "returned",
                                        exists |-> file.exists,
                                        getsize |-> file.getsize])
         /\ IF item_succeeded("returned", file.exists)
            THEN /\ success_count' = success_count + 1
                 /\ console_content' = console_content \o
                       (IF file.getsize = "returned"
                        THEN << Line("SUCCESS", i + 1, total_count,
                                     video_data[order[i + 1] + 1].title) >>
                        ELSE << Line("ERROR", i + 1, total_count,
                                     video_data[order[i + 1] + 1].title),
                                Line("Details", i + 1, total_count, s_empty) >>)
            ELSE /\ success_count' = success_count
                 /\ console_content' = Append(console_content,
                       Line("FAILED", i + 1, total_count,
                            video_data[order[i + 1] + 1].title))
    /\ i' = i + 1
    /\ pc' = "loop"
    /\ UNCHANGED selected_format
    /\ UNCHANGED batch_frame

\* extract_info raised, or returned None and prepare_filename(None) raised: the
\* except clause logs the error and the loop goes on.
ItemRaises ==
    /\ pc = "extract"
    /\ \E result \in ExtractInfoResults \ {"returned"} :
         ext_log' = Append(ext_log, [pos |-> i + 1, result |-> result,
                                     exists |-> FALSE, getsize |-> "not called"])
    /\ success_count' = success_count
    /\ console_content' = console_content \o
          << Line("ERROR", i + 1, total_count, video_data[order[i + 1] + 1].title),
             Line("Details", i + 1, total_count, s_empty) >>
    /\ i' = i + 1
    /\ pc' = "loop"
    /\ UNCHANGED selected_format
    /\ UNCHANGED batch_frame

\* After the loop: the summary lines and the return value.
Finish ==
    /\ pc = "loop"
    /\ i >= Len(order)
    /\ console_content' = console_content \o ConsoleSummary(success_count, total_count)
    /\ returned' = IF success_count > 0 THEN "True" ELSE "False"
    /\ pc' = "done"
    /\ UNCHANGED <<playlist_url, video_data, video_urls, selected_videos,
                   select_all_clicked, clear_all_clicked, validation, st_error,
                   widgets, order, total_count, i, success_count, ext_log,
                   op_history, audio_only, quality, available_heights,
                   ydl_format, selected_format>>

\* ------------------------------------------------------------ specifications

Next ==
    \/ SubmitUrl
    \/ Refresh
    \/ ClickSetFolder
    \/ ClickFolderButton
    \/ Rerun
    \/ ClickSelectAll
    \/ ClickClearAll
    \/ SubmitForm
    \/ ClickStartDownload
    \/ StartItem
    \/ SkipItem
    \/ ItemReturns
    \/ ItemRaises
    \/ Finish

Spec == Init /\ [][Next]_vars

\* The batch runs in the script's single thread: once download_videos is
\* entered the loop takes its next step, and every extractor call made comes
\* back, by returning or by raising.
SpecFair ==
    /\ Spec
    /\ WF_vars(StartItem)
    /\ WF_vars(SkipItem)
    /\ WF_vars(ItemReturns \/ ItemRaises)
    /\ WF_vars(Finish)


\* ------------------------------------------- the validator on candidate strings

\* Pieces the candidate strings are put together from.
CandidateSchemes == {s_empty, s_http \o s_colon_slashes, s_http \o s_s \o s_colon_slashes,
                     <<"f","t","p">> \o s_colon_slashes}
CandidateWww == {s_empty, s_www_dot, <<"m",".">>}
CandidateHosts == {s_youtube_com, s_youtu \o s_dot \o s_be, s_youtu \o s_be,
                   <<"v","i","m","e","o",".","c","o","m">>}
CandidatePaths == {s_playlist_list, <<"/","w","a","t","c","h","?","v","=">>,
                   <<"/","p","l","a","y","l","i","s","t","?">>}
CandidateIdChars == {"P", "7", "_", "-", "!"}

\* The strings over chars of length 0..n.
RECURSIVE StringsUpTo(_, _)
StringsUpTo(chars, n) ==
    IF n = 0 THEN {s_empty}
    ELSE LET shorter == StringsUpTo(chars, n - 1)
         IN  shorter \cup { Append(t, c) : t \in shorter, c \in chars }

CandidateUrls ==
    { scheme \o www \o host \o path \o id :
        scheme \in CandidateSchemes, www \in CandidateWww, host \in CandidateHosts,
        path \in CandidatePaths, id \in StringsUpTo(CandidateIdChars, MaxIdLen) }

\* A candidate string is in the URL box and the script has not run on it yet.
InitUrl ==
    /\ playlist_url \in CandidateUrls
    /\ video_data = << >>
    /\ video_urls = << >>
    /\ selected_videos = {}
    /\ select_all_clicked = FALSE
    /\ clear_all_clicked = FALSE
    /\ validation = "not called"
    /\ st_error = ""
    /\ widgets = {}
    /\ pc = "idle"
    /\ order = << >>
    /\ i = 0
    /\ total_count = 0
    /\ success_count = 0
    /\ console_content = << >>
    /\ returned = "none"
    /\ ext_log = << >>
    /\ op_history = ""
    /\ ydl_format = s_empty
    /\ SidebarDefault
    /\ NoOffer

\* The script runs on the candidate; the extractor is out of reach.
ValidateUrl ==
    /\ validation = "not called"
    /\ main(playlist_url, Sidebar, "input", {}, ExtractorDown, FALSE)

NextUrl == ValidateUrl

SpecUrl == InitUrl /\ [][NextUrl]_vars


\* --------------------------------------- the format request on offered formats

\* The heights a video may be offered at.
OfferedHeights == {240, 360, 480, 720, 1080, 2160}

\* The playlist of one video the format request is followed on.
OneVideoData == build_video_data(<< PlaylistVideo(s_playlist_a, 1) >>, 1)

\* A session that has stored a playlist of one video and selected it, with the
\* sidebar at any of its choices; the site offers the video in at least one
\* format.
InitFormat ==
    /\ playlist_url = s_playlist_a
    /\ video_data = OneVideoData
    /\ video_urls = build_video_urls(OneVideoData)
    /\ selected_videos = {0}
    /\ select_all_clicked = FALSE
    /\ clear_all_clicked = FALSE
    /\ validation = "True"
    /\ st_error = ""
    /\ widgets = ControlWidgets \cup {"start_download"}
    /\ pc = "idle"
    /\ order = << >>
    /\ i = 0
    /\ total_count = 0
    /\ success_count = 0
    /\ console_content = << >>
    /\ returned = "none"
    /\ ext_log = << >>
    /\ op_history = ""
    /\ ydl_format = s_empty
    /\ \E choice \in SidebarChoices :
          /\ audio_only = choice.audio_only
          /\ quality = choice.quality
    /\ available_heights \in (SUBSET OfferedHeights) \ {{}}
    /\ selected_format = NotRun

\* Inside extract_info: the extractor selects a format of the video with the
\* request download_videos has built.
SelectFormat ==
    /\ pc = "extract"
    /\ available_heights # {}
    /\ selected_format = NotRun
    /\ selected_format' = select_format(ydl_format, available_heights)
    /\ UNCHANGED <<pc, i, success_count, console_content, ext_log>>
    /\ UNCHANGED batch_frame

NextFormat ==
    \/ ClickStartDownload
    \/ StartItem
    \/ SelectFormat
    \/ ItemReturns
    \/ ItemRaises
    \/ Finish

SpecFormat == InitFormat /\ [][NextFormat]_vars


\* ------------------------------------------------ reading the console content

OutcomeKinds == {"SUCCESS", "FAILED", "ERROR"}
ClassificationKinds ==
    {"ALL DOWNLOADS COMPLETED SUCCESSFULLY", "PARTIAL SUCCESS", "ALL DOWNLOADS FAILED"}

\* The places of console_content that hold an item's outcome line.
OutcomeAt == { j \in 1..Len(console_content) : console_content[j].kind \in OutcomeKinds }

\* The outcome lines of the selected index idx.
OutcomesOf(idx) == { j \in OutcomeAt : order[console_content[j].pos] = idx }

\* The selected indices with a SUCCESS line.
Succeeded ==
    { idx \in selected_videos :
        \E j \in OutcomesOf(idx) : console_content[j].kind = "SUCCESS" }

\* The places of console_content that hold the terminal classification.
ClassifiedAt ==
    { j \in 1..Len(console_content) : console_content[j].kind \in ClassificationKinds }

\* The extractor calls that returned info with the file on disk.
FileCalls == { e \in 1..Len(ext_log) : ext_log[e].result = "returned" /\ ext_log[e].exists }

\* The places of console_content that hold the line an item is started with.
StartingAt == { j \in 1..Len(console_content) : console_content[j].kind = "Starting" }

\* download_videos has been entered in the current run.
InBatch == pc \in {"loop", "extract", "done"}

\* ------------------------------------------------------------------- claims

\* C1 (as the spec states it, for the calls that reach the loop): when
\* download_videos has returned for a non-empty Selection, every selected index
\* has exactly one outcome line and the number of outcome lines is
\* len(Selection).
C1_OneOutcomePerSelectedIndex ==
    (pc = "done" /\ selected_videos # {} /\ console_content # << >>) =>
        /\ \A idx \in selected_videos : Cardinality(OutcomesOf(idx)) = 1
        /\ Cardinality(OutcomeAt) = Cardinality(selected_videos)

\* What does hold of the loop: no selected index gets two outcome lines, and
\* each index that is < len(video_urls) has exactly one once the loop is over.
C1_InRangeIndexesOnly ==
    /\ \A idx \in selected_videos : Cardinality(OutcomesOf(idx)) <= 1
    /\ (pc = "done" /\ video_urls # << >>) =>
          \A idx \in selected_videos :
             idx < Len(video_urls) => Cardinality(OutcomesOf(idx)) = 1

\* C2 (as the spec states it): an item whose try block raises (the extractor
\* call raises, or returns None, which makes prepare_filename raise, or returns
\* and os.path.getsize raises) is recorded by an ERROR line and by no SUCCESS
\* line, and it does not end the loop: when download_videos has returned, the
\* loop has walked every position of the sorted Selection and every later
\* selected index has been attempted and has its outcome line.
C2_ContinueOnError ==
    \A e \in 1..Len(ext_log) :
        (ext_log[e].result # "returned" \/ ext_log[e].getsize = "raised") =>
            /\ \E j \in OutcomeAt : /\ console_content[j].pos = ext_log[e].pos
                                    /\ console_content[j].kind = "ERROR"
            /\ \A j \in OutcomeAt : console_content[j].pos = ext_log[e].pos
                                    => console_content[j].kind = "ERROR"
            /\ pc = "done" =>
                 /\ i = Len(order)
                 /\ \A q \in (ext_log[e].pos + 1)..Len(order) :
                       /\ \E j \in StartingAt : console_content[j].pos = q
                       /\ \E j \in OutcomeAt : console_content[j].pos = q

\* What does hold after an exception: the item has its ERROR line and no
\* other outcome, the loop walks every later position, and every later index
\* the loop body takes (idx < len(video_urls)) is attempted and has its outcome
\* line.
C2_ContinueWithinRange ==
    \A e \in 1..Len(ext_log) :
        (ext_log[e].result # "returned" \/ ext_log[e].getsize = "raised") =>
            /\ \E j \in OutcomeAt : /\ console_content[j].pos = ext_log[e].pos
                                    /\ console_content[j].kind = "ERROR"
            /\ \A j \in OutcomeAt : console_content[j].pos = ext_log[e].pos
                                    => console_content[j].kind = "ERROR"
            /\ pc = "done" =>
                 /\ i = Len(order)
                 /\ \A q \in (ext_log[e].pos + 1)..Len(order) :
                       order[q] < Len(video_urls) =>
                          /\ \E j \in StartingAt : console_content[j].pos = q
                          /\ \E j \in OutcomeAt : console_content[j].pos = q

\* C3: when an item is started, every smaller selected index already has its
\* outcome line; and the outcome lines are in strictly ascending index order.
C3_AscendingOrder ==
    /\ \A j \in 1..Len(console_content) :
          console_content[j].kind = "Starting" =>
             \A a \in selected_videos :
                a < order[console_content[j].pos] =>
                   \E k \in OutcomeAt : k < j /\ order[console_content[k].pos] = a
    /\ \A j, k \in OutcomeAt :
          j < k => order[console_content[j].pos] < order[console_content[k].pos]

\* A batch over {0, 2} has recorded both outcomes.
C3_Witness ==
    /\ pc = "done"
    /\ selected_videos = {0, 2}
    /\ Cardinality(OutcomeAt) = 2

\* C4 (as the spec states it): a batch that ran its loop ends with exactly one classification line:
\* full success with succeeded = total when every selected index has a SUCCESS
\* line, total failure when none has, partial success otherwise, followed by a
\* failure count of total - succeeded (total = len(Selection)). A call that is
\* not turned away at its entry (video_urls non-empty) does run its loop.
C4_TerminalClassification ==
    /\ (pc = "done" /\ video_urls # << >>) => console_content # << >>
    /\ (pc = "done" /\ console_content # << >>) =>
          /\ Cardinality(ClassifiedAt) = 1
          /\ \A j \in ClassifiedAt :
               IF Succeeded = selected_videos
               THEN /\ console_content[j].kind = "ALL DOWNLOADS COMPLETED SUCCESSFULLY"
                    /\ console_content[j].pos = Cardinality(selected_videos)
                    /\ console_content[j].total = Cardinality(selected_videos)
               ELSE IF Succeeded = {}
               THEN /\ console_content[j].kind = "ALL DOWNLOADS FAILED"
                    /\ console_content[j].total = Cardinality(selected_videos)
               ELSE /\ console_content[j].kind = "PARTIAL SUCCESS"
                    /\ console_content[j].pos = Cardinality(Succeeded)
                    /\ console_content[j + 1].kind = "downloads failed"
                    /\ console_content[j + 1].pos =
                          Cardinality(selected_videos) - Cardinality(Succeeded)
    /\ pc # "done" => ClassifiedAt = {}

\* What does hold of the classification: it is the three-way test on
\* success_count and total_count = len(Selection), whatever outcome lines the
\* items have.
C4_ClassifiesTheCount ==
    /\ (pc = "done" /\ video_urls # << >>) => console_content # << >>
    /\ (pc = "done" /\ console_content # << >>) =>
          /\ total_count = Cardinality(selected_videos)
          /\ Cardinality(ClassifiedAt) = 1
          /\ \A j \in ClassifiedAt :
               /\ console_content[j].kind = classify(success_count, total_count)
               /\ console_content[j].pos = success_count
               /\ console_content[j].total = total_count
               /\ console_content[j].kind = "PARTIAL SUCCESS" =>
                     /\ console_content[j + 1].kind = "downloads failed"
                     /\ console_content[j + 1].pos = total_count - success_count
    /\ pc # "done" => ClassifiedAt = {}

\* C5 (as the spec states it): a run that stores the entries of a newly
\* submitted playlist URL leaves the Selection empty.
C5_SelectionInvalidated ==
    [][(playlist_url' # playlist_url /\ video_data' # video_data)
          => selected_videos' = {}]_vars

\* C6 (as the spec states it): a call of download_videos whose Selection is
\* empty or holds an index that is not < len(video_urls) starts no item, calls
\* the extractor for none, and ends with an error message.
C6_PreconditionRejects ==
    (/\ InBatch
     /\ \/ selected_videos = {}
        \/ \E idx \in selected_videos : ~(idx < Len(video_urls)))
    => /\ pc # "extract"
       /\ ext_log = << >>
       /\ \A j \in 1..Len(console_content) : console_content[j].kind # "Starting"
       /\ pc = "done" => st_error # ""

\* C7 (as the spec states it): an item has a SUCCESS line exactly when its extractor call returned the
\* video's info and the file was found on disk, and success_count counts exactly
\* those calls.
C7_SuccessIffFileExists ==
    /\ \A e \in 1..Len(ext_log) :
          (\E j \in OutcomeAt : /\ console_content[j].pos = ext_log[e].pos
                                /\ console_content[j].kind = "SUCCESS")
          <=> (ext_log[e].result = "returned" /\ ext_log[e].exists)
    /\ success_count = Cardinality(FileCalls)
    /\ Cardinality(OutcomeAt) = Len(ext_log)

\* What does hold of the count: it counts the calls that returned with the file
\* found by os.path.exists; a call that raised, returned None or left no file
\* is not counted and has no SUCCESS line; every SUCCESS line is a counted call.
C7_CountsFilesFound ==
    /\ success_count = Cardinality(FileCalls)
    /\ Cardinality(OutcomeAt) = Len(ext_log)
    /\ \A e \in 1..Len(ext_log) :
          (\E j \in OutcomeAt : /\ console_content[j].pos = ext_log[e].pos
                                /\ console_content[j].kind = "SUCCESS")
          <=> (e \in FileCalls /\ ext_log[e].getsize = "returned")

\* C8: right after the Clear All handler that follows the Select All handler
\* the Selection is empty, and right after the Select All handler that follows
\* the Clear All handler it is {0 .. n-1}, n = len(video_data).
C8_SelectAllClearAll ==
    /\ (pc = "rerun" /\ op_history = "selectAll;clearAll") => selected_videos = {}
    /\ (pc = "rerun" /\ op_history = "clearAll;selectAll")
          => selected_videos = 0..(Len(video_data) - 1)

\* Clear All, then Select All, over a list of at least two entries.
C8_Witness ==
    /\ pc = "rerun"
    /\ op_history = "clearAll;selectAll"
    /\ Len(video_data) >= 2
    /\ selected_videos = 0..(Len(video_data) - 1)

\* The places where lit occurs in url.
Occurrences(url, lit) ==
    { p \in 1..(Len(url) - Len(lit) + 1) : SubSeq(url, p, p + Len(lit) - 1) = lit }

\* url without its scheme (the text up to the first "://").
WithoutScheme(url) ==
    LET at == Occurrences(url, s_colon_slashes)
    IN  IF at = {} THEN url
        ELSE SubSeq(url, (CHOOSE p \in at : \A q \in at : p <= q) + 3, Len(url))

\* The host of url: what follows the scheme, up to the first "/".
HostOf(url) ==
    LET rest == WithoutScheme(url)
        at == { p \in 1..Len(rest) : rest[p] = "/" }
    IN  IF at = {} THEN rest
        ELSE SubSeq(rest, 1, (CHOOSE p \in at : \A q \in at : p <= q) - 1)

RecognizedHosts ==
    { www \o host : www \in {s_empty, s_www_dot},
                    host \in {s_youtube_com, s_youtu \o s_dot \o s_be} }

\* C9 (as the spec states it): a string the validator accepts has the list=
\* parameter and one of the hosts youtube.com, youtu.be (with or without www.).
C9_RejectsOtherHosts ==
    validation = "True" =>
        /\ Occurrences(playlist_url, <<"l","i","s","t","=">>) # {}
        /\ HostOf(playlist_url) \in RecognizedHosts

\* The part of C9 the pattern does guarantee: no accepted string lacks list=.
C9_ListParameterOnly ==
    validation = "True" => Occurrences(playlist_url, <<"l","i","s","t","=">>) # {}

\* The strings of the documented playlist shape, built from its parts.
DocumentedIdChars == {"P", "7", "_", "-"}
DocumentedShapeUrls ==
    { scheme \o www \o host \o s_playlist_list \o id :
        scheme \in {s_empty, <<"h","t","t","p",":","/","/">>,
                    <<"h","t","t","p","s",":","/","/">>},
        www \in {s_empty, s_www_dot},
        host \in {s_youtube_com, <<"y","o","u","t","u",".","b","e">>},
        id \in StringsUpTo(DocumentedIdChars, MaxIdLen) \ {s_empty} }

\* C10: the validator accepts every string of the documented shape, with
\* http://, with https:// and with no scheme.
C10_AcceptsDocumentedShape ==
    (validation # "not called" /\ playlist_url \in DocumentedShapeUrls)
        => validation = "True"

\* A scheme-less youtu.be playlist URL has been accepted.
C10_Witness ==
    /\ validation = "True"
    /\ playlist_url \in DocumentedShapeUrls
    /\ SubSeq(playlist_url, 1, 8) = <<"y","o","u","t","u",".","b","e">>

\* The positions of the batch that have been started and have no outcome line yet.
InFlight ==
    { p \in 1..Len(order) :
        /\ \E j \in StartingAt : console_content[j].pos = p
        /\ ~ \E j \in OutcomeAt : console_content[j].pos = p }

\* C11: at most one item is in flight at any moment: exactly the current one
\* while its extractor call is running, none otherwise; and between the start
\* lines of two items lies the outcome line of the earlier one, after its
\* extractor call has been logged as finished.
C11_StrictSequencing ==
    /\ Cardinality(InFlight) <= 1
    /\ pc = "extract" => /\ InFlight = {i + 1}
                         /\ \A e \in 1..Len(ext_log) : ext_log[e].pos < i + 1
    /\ pc # "extract" => InFlight = {}
    /\ \A j, k \in StartingAt :
          j < k => \E m \in OutcomeAt :
                      /\ j < m /\ m < k
                      /\ console_content[m].pos = console_content[j].pos
                      /\ \E e \in 1..Len(ext_log) : ext_log[e].pos = console_content[j].pos

\* The second item of a batch is in flight, the first one has its outcome.
C11_Witness ==
    /\ pc = "extract"
    /\ Cardinality(StartingAt) = 2
    /\ Cardinality(OutcomeAt) = 1
    /\ Len(ext_log) = 1

\* The messages of a run whose URL was rejected, whose playlist could not be
\* fetched, or whose playlist has no entries.
PlaylistErrors ==
    {"Please enter a valid YouTube playlist URL",
     "Could not fetch playlist information",
     "No videos found in this playlist"}

\* C12 (as the spec states it): a run in which the URL fails the validator, the
\* fetch returns nothing, the playlist has no entries, or the Selection is
\* empty does not enter download_videos and leaves video_data, video_urls and
\* the Selection as they were.
C12_ListsUnchangedAfterError ==
    [][
        /\ (validation' = "False" \/ st_error' \in PlaylistErrors) =>
              /\ pc' = "idle"
              /\ console_content' = << >> /\ ext_log' = << >> /\ returned' = "none"
              /\ video_data' = video_data
              /\ video_urls' = video_urls
              /\ selected_videos' = selected_videos
        /\ (pc \in {"idle", "done", "rerun"} /\ pc' # "rerun" /\ selected_videos' = {}) =>
              /\ pc' = "idle"
              /\ console_content' = << >> /\ ext_log' = << >> /\ returned' = "none"
              /\ video_data' = video_data
              /\ video_urls' = video_urls
              /\ selected_videos' = selected_videos
    ]_vars

\* C12 (amended): a run that ends with a validation or extraction error (the
\* URL fails the validator, the fetch returns nothing, the playlist has no
\* entries) does not enter download_videos, offers no Start Download button and
\* leaves video_data, video_urls and the Selection as they were; a run that
\* reaches the Download section with an empty Selection does not enter
\* download_videos, offers no Start Download button and leaves the Selection as
\* it was, while video_data and video_urls are the lists stored before or the
\* ones its own fetch stored.
C12_NoBatchAfterError ==
    [][
        /\ (validation' = "False" \/ st_error' \in PlaylistErrors) =>
              /\ pc' = "idle"
              /\ console_content' = << >> /\ ext_log' = << >> /\ returned' = "none"
              /\ "start_download" \notin widgets'
              /\ video_data' = video_data
              /\ video_urls' = video_urls
              /\ selected_videos' = selected_videos
        /\ (pc \in {"idle", "done", "rerun"} /\ pc' # "rerun" /\ selected_videos' = {}) =>
              /\ pc' = "idle"
              /\ console_content' = << >> /\ ext_log' = << >> /\ returned' = "none"
              /\ "start_download" \notin widgets'
              /\ selected_videos' = selected_videos
              /\ video_urls' = build_video_urls(video_data')
    ]_vars

\* A fetch has failed in a session that holds a playlist and a Selection: both
\* are still there, and no batch has been entered.
C12_Witness ==
    /\ st_error = "Could not fetch playlist information"
    /\ Len(video_data) >= 2
    /\ selected_videos # {}
    /\ pc = "idle"
    /\ console_content = << >>

\* The ceiling each tier names; the tier "best" is served with 1080 as the
\* preferred ceiling.
TierCeiling ==
    [q \in QualityOptions |->
        IF q = "720p" THEN 720 ELSE IF q = "480p" THEN 480
        ELSE IF q = "360p" THEN 360 ELSE 1080]

\* The offered heights at or below the chosen tier's ceiling.
WithinCeiling == { h \in available_heights : h <= TierCeiling[quality] }

\* C13 (as the spec states it): for every tier, the request built in video mode
\* selects the highest format at or below the tier's ceiling when the video is
\* offered at one, and falls back to the best format offered when it is not.
C13_TierFallsBackToBest ==
    (~audio_only /\ selected_format # NotRun) =>
        /\ WithinCeiling # {} =>
              selected_format = [status |-> "selected", height |-> Highest(WithinCeiling)]
        /\ WithinCeiling = {} =>
              selected_format = [status |-> "selected",
                                 height |-> Highest(available_heights)]

\* What does hold of the requests: every tier prefers the highest format at or
\* below its ceiling; the tier "best" alone ends in 'best' and falls back, the
\* other four select nothing when every offered format is above the ceiling.
C13_CeilingOnly ==
    (~audio_only /\ selected_format # NotRun) =>
        LET alts == SplitAlternatives(ydl_format)
        IN  /\ ParseAlternative(alts[1]) = [sound_only |-> FALSE, filtered |-> TRUE,
                                            ceiling |-> TierCeiling[quality]]
            /\ WithinCeiling # {} =>
                  selected_format = [status |-> "selected", height |-> Highest(WithinCeiling)]
            /\ alts[Len(alts)] = s_best <=> quality = "best"
            /\ WithinCeiling = {} =>
                  selected_format = IF quality = "best"
                                    THEN [status |-> "selected",
                                          height |-> Highest(available_heights)]
                                    ELSE [status |-> "not available", height |-> 0]

\* The kinds of the console lines written for an item.
ItemKinds == {"Starting", "Connecting to", "Details"} \cup OutcomeKinds

\* s is a prefix of t.
IsPrefix(s, t) == Len(s) <= Len(t) /\ SubSeq(t, 1, Len(s)) = s

\* C14 (as the spec states it, for the calls that reach the loop): when
\* download_videos has returned for a non-empty Selection, the console holds
\* exactly one classification line, the outcome line of every selected index
\* stands before it and no item line stands after it; before the return there
\* is no classification line.
C14_TerminalAfterEveryOutcome ==
    /\ (pc = "done" /\ selected_videos # {} /\ console_content # << >>) =>
          /\ Cardinality(ClassifiedAt) = 1
          /\ \A k \in ClassifiedAt :
                /\ \A idx \in selected_videos : \E j \in OutcomesOf(idx) : j < k
                /\ \A j \in 1..Len(console_content) :
                      console_content[j].kind \in ItemKinds => j < k
    /\ pc # "done" => ClassifiedAt = {}

\* What does hold of the terminal event: exactly one classification line once
\* the loop is over, after every outcome line there is and the last of the
\* item lines.
C14_TerminalEventLast ==
    /\ (pc = "done" /\ console_content # << >>) =>
          /\ Cardinality(ClassifiedAt) = 1
          /\ \A k \in ClassifiedAt :
                \A j \in 1..Len(console_content) :
                   console_content[j].kind \in ItemKinds => j < k
    /\ pc # "done" => ClassifiedAt = {}

\* What does hold of the console: within a batch lines are only appended.
C14_AppendOnly ==
    [][(pc \in {"loop", "extract"}) => IsPrefix(console_content, console_content')]_vars

\* What does hold of the loop: a batch that has entered it returns.
C14_BatchTerminates == (pc \in {"loop", "extract"}) ~> (pc = "done")

\* C15 (as the spec states it): video_data and video_urls have the same length
\* n and every selected index is one of 0 .. n-1.
C15_SelectionWithinRange ==
    /\ Len(video_data) = Len(video_urls)
    /\ selected_videos \subseteq 0..(Len(video_data) - 1)

\* What does hold of the stored lists and of the handlers: the two lists have
\* the same length, and right after Select All, Clear All or the form's submit
\* (the run that ends in st.rerun()) the Selection is within 0 .. n-1.
C15_WithinRangeAfterHandler ==
    /\ Len(video_data) = Len(video_urls)
    /\ pc = "rerun" => selected_videos \subseteq 0..(Len(video_data) - 1)

====
